---- MODULE Spec2Model ----
(***************************************************************************)
(* Request builder utility (src/utils/request-builder.ts): createRequest,  *)
(* the decorators withAuth / withApiKey / withHeaders / withQueryParams    *)
(* and the convenience builders build{Get,Post,Put,Patch,Delete}Request,   *)
(* called by several test cases over a heap of SuperTest objects.          *)
(***************************************************************************)
EXTENDS Integers, Sequences, FiniteSets, TLC

VARIABLES
    config,          \* what getConfig() returns: a record, with or without the field services
    TEMPLATE_CONFIG, \* the static registry: [services |-> entries in declaration order]
    heap,            \* the live SuperTest objects, by object identity
    nextId,          \* number of objects allocated so far (identities 1..nextId are used)
    held,            \* per test case: the handle the last successful call returned (0: none)
    built,           \* per test case: the handle its last factory/builder call returned (0: none)
    last             \* the last call made: operation, arguments and outcome

vars == <<config, TEMPLATE_CONFIG, heap, nextId, held, built, last>>

(***************************** bounds and inputs ***************************)

\* Largest number of objects one behaviour allocates.
MaxAlloc == 4

\* Largest number of entries of a mapping passed in or configured.
MaxEntries == 2

\* The logical test cases calling into the module.
Tests == {"tc1", "tc2"}

\* The one test case of the single-caller specifications.
Solo == {"tc1"}

\* JavaScript undefined for an omitted optional string argument.
Undefined == "<undefined>"

\* JavaScript truthiness of an optional string: undefined and "" are falsy.
Truthy(v) == v # Undefined /\ v # ""

\* Entries of TEMPLATE_CONFIG.services: symbolic key and service name.
RegistryEntries ==
    { [key |-> "MAIN", value |-> "main"], [key |-> "PAYMENTS", value |-> "payments"] }

\* Base URL strings read from the environment; "" is an unset variable.
Urls == {"", "http://main.test", "http://payments.test"}

\* Keys an environment file may configure.
ConfigKeys == {"main", "payments"}

\* Service names a caller passes: omitted, registered ones, one outside the registry.
ServiceArgs == {Undefined, "main", "payments", "legacy"}

\* The sequences over S without a repeated element, of length lo..hi.
RECURSIVE DistinctSeqs(_, _, _)
DistinctSeqs(S, lo, hi) ==
    IF hi = 0 THEN {<<>>}
    ELSE LET shorter == DistinctSeqs(S, 0, hi - 1)
             longer  == { Append(q, e) : q \in {r \in shorter : Len(r) = hi - 1},
                                          e \in S }
             all     == shorter \cup {q \in longer :
                            \A i, j \in 1..Len(q) : i # j => q[i] # q[j]}
         IN  {q \in all : Len(q) >= lo}

\* Object mappings in enumeration order: entries with pairwise different keys.
OrderedMappings(Keys, Values, hi) ==
    { q \in DistinctSeqs([key : Keys, value : Values], 0, hi) :
        \A i, j \in 1..Len(q) : i # j => q[i].key # q[j].key }

Registries == DistinctSeqs(RegistryEntries, 1, Cardinality(RegistryEntries))

Configs ==
    { [env |-> "test"] } \cup
    { [env |-> "test", services |-> s] : s \in OrderedMappings(ConfigKeys, Urls, MaxEntries) }

(************************* JavaScript object helpers ***********************)

\* Object.keys(obj): the own keys in enumeration order.
ObjectKeys(obj) == [i \in 1..Len(obj) |-> obj[i].key]

\* obj[name]: the value stored under name, undefined when name is no key.
Get(obj, name) ==
    IF \E i \in 1..Len(obj) : obj[i].key = name
    THEN (CHOOSE e \in {obj[i] : i \in 1..Len(obj)} : e.key = name).value
    ELSE Undefined

\* Array.prototype.join: the items with the separator between neighbours.
RECURSIVE Join(_, _)
Join(items, sep) ==
    IF Len(items) = 0 THEN <<>>
    ELSE IF Len(items) = 1 THEN <<items[1]>>
    ELSE <<items[1], sep>> \o Join(Tail(items), sep)

(****************************** SuperTest API ******************************)

\* A call's result: the heap after it, the allocation count, whether it threw,
\* the error message (pieces of text, in order) and the handle returned.
Returned(h, n, ret) == [heap |-> h, nextId |-> n, threw |-> FALSE, error |-> <<>>, ret |-> ret]
Thrown(h, n, msg)   == [heap |-> h, nextId |-> n, threw |-> TRUE, error |-> msg, ret |-> 0]

\* h with one more object, under identity id.
Alloc(h, id, obj) == [i \in DOMAIN h \cup {id} |-> IF i = id THEN obj ELSE h[i]]

\* request(app): a new agent bound to app.
request(m, app) ==
    Returned(Alloc(m.heap, m.nextId + 1, [kind |-> "agent", app |-> app]),
             m.nextId + 1, m.nextId + 1)

\* agent.get(path) / .post(path) / ...: a new Test for method and path on the agent's app.
verb(m, agent, method, path) ==
    Returned(Alloc(m.heap, m.nextId + 1,
                   [kind |-> "test", app |-> m.heap[agent].app, method |-> method,
                    path |-> path, body |-> Undefined, header |-> <<>>, query |-> <<>>]),
             m.nextId + 1, m.nextId + 1)

\* A name -> value map with name set to value, every other name as before.
Put(map, name, value) ==
    [n \in DOMAIN map \cup {name} |-> IF n = name THEN value ELSE map[n]]

\* req.set(field, value): sets one header on the object and returns it.
set(m, req, field, value) ==
    Returned([m.heap EXCEPT ![req].header = Put(@, field, value)], m.nextId, req)

\* req.send(body): attaches the body and returns the object.
send(m, req, body) ==
    Returned([m.heap EXCEPT ![req].body = body], m.nextId, req)

\* req.query(params): merges the parameters into the query and returns the object.
RECURSIVE PutAll(_, _)
PutAll(map, entries) ==
    IF Len(entries) = 0 THEN map
    ELSE PutAll(Put(map, entries[1].key, entries[1].value), Tail(entries))

query(m, req, params) ==
    Returned([m.heap EXCEPT ![req].query = PutAll(@, params)], m.nextId, req)

(****************************** createRequest ******************************)

ServicesNotConfigured ==
    << "Services not configured in environment file\n",
       "Ensure your environment config includes the services object" >>

ServiceNotConfigured(serviceName, availableServices) ==
    << "Service \"", serviceName, "\" not configured in environment\n",
       "Available services: " >> \o availableServices \o
    << "\n", "Check your .env file for the corresponding URL variable" >>

\* The last key of the registry instead of the first.
lastServiceKey == ObjectKeys(TEMPLATE_CONFIG.services)[Len(TEMPLATE_CONFIG.services)]

\* Object.keys(TEMPLATE_CONFIG.services)[0]
firstServiceKey == ObjectKeys(TEMPLATE_CONFIG.services)[1]

\* createRequest resolving every call to the default service.
createRequestIgnoringArgument(m, serviceName) ==
    IF "services" \notin DOMAIN config
    THEN Thrown(m.heap, m.nextId, ServicesNotConfigured)
    ELSE LET services == config.services
             name == Get(TEMPLATE_CONFIG.services, firstServiceKey)
         IN  IF ~Truthy(Get(services, name))
             THEN Thrown(m.heap, m.nextId,
                         ServiceNotConfigured(name, Join(ObjectKeys(services), ", ")))
             ELSE request(m, Get(services, name))

\* createRequest listing the registry's keys as the available services.
createRequestListingRegistry(m, serviceName) ==
    IF "services" \notin DOMAIN config
    THEN Thrown(m.heap, m.nextId, ServicesNotConfigured)
    ELSE LET services == config.services
             name == IF ~Truthy(serviceName)
                     THEN Get(TEMPLATE_CONFIG.services, firstServiceKey)
                     ELSE serviceName
         IN  IF ~Truthy(Get(services, name))
             THEN Thrown(m.heap, m.nextId,
                         ServiceNotConfigured(name,
                             Join(ObjectKeys(TEMPLATE_CONFIG.services), ", ")))
             ELSE request(m, Get(services, name))

\* createRequest reading a missing services object as an empty one.
createRequestDefaultingServices(m, serviceName) ==
    LET services == IF "services" \in DOMAIN config THEN config.services ELSE <<>>
        name == IF ~Truthy(serviceName)
                THEN Get(TEMPLATE_CONFIG.services, firstServiceKey)
                ELSE serviceName
    IN  IF ~Truthy(Get(services, name))
        THEN Thrown(m.heap, m.nextId,
                    ServiceNotConfigured(name, Join(ObjectKeys(services), ", ")))
        ELSE request(m, Get(services, name))

\* createRequest handing out again a live agent of the same base URL.
createRequestCached(m, serviceName) ==
    IF "services" \notin DOMAIN config
    THEN Thrown(m.heap, m.nextId, ServicesNotConfigured)
    ELSE LET services == config.services
             name == IF ~Truthy(serviceName)
                     THEN Get(TEMPLATE_CONFIG.services, firstServiceKey)
                     ELSE serviceName
             cached == {i \in DOMAIN m.heap : m.heap[i] = [kind |-> "agent",
                                                           app |-> Get(services, name)]}
         IN  IF ~Truthy(Get(services, name))
             THEN Thrown(m.heap, m.nextId,
                         ServiceNotConfigured(name, Join(ObjectKeys(services), ", ")))
             ELSE IF cached # {}
             THEN Returned(m.heap, m.nextId, CHOOSE i \in cached : TRUE)
             ELSE request(m, Get(services, name))

createRequest(m, serviceName) ==
    IF "services" \notin DOMAIN config
    THEN Thrown(m.heap, m.nextId, ServicesNotConfigured)
    ELSE LET services == config.services
             name == IF ~Truthy(serviceName)
                     THEN Get(TEMPLATE_CONFIG.services, firstServiceKey)
                     ELSE serviceName
         IN  IF ~Truthy(Get(services, name))
             THEN Thrown(m.heap, m.nextId,
                         ServiceNotConfigured(name, Join(ObjectKeys(services), ", ")))
             ELSE request(m, Get(services, name))

(******************************** decorators *******************************)

\* withAuth keeping an Authorization header the request already carries.
withAuthKeepingFirst(m, req, token) ==
    IF "Authorization" \in DOMAIN m.heap[req].header
    THEN Returned(m.heap, m.nextId, req)
    ELSE set(m, req, "Authorization", "Bearer " \o token)

withAuth(m, req, token) ==
    set(m, req, "Authorization", "Bearer " \o token)

\* The default value of withApiKey's headerName parameter.
DefaultApiKeyHeader == "x-api-key"

\* withApiKey setting the default header besides the named one.
withApiKeySettingBoth(m, req, apiKey, headerName) ==
    LET r == set(m, req, DefaultApiKeyHeader, apiKey)
    IN  set(r, req, IF headerName = Undefined THEN DefaultApiKeyHeader ELSE headerName,
            apiKey)

withApiKey(m, req, apiKey, headerName) ==
    set(m, req, IF headerName = Undefined THEN DefaultApiKeyHeader ELSE headerName, apiKey)

\* Object.entries(headers).forEach(([key, value]) => req.set(key, value))
RECURSIVE forEachSet(_, _, _)
forEachSet(m, req, entries) ==
    IF Len(entries) = 0 THEN m
    ELSE forEachSet(set(m, req, entries[1].key, entries[1].value), req, Tail(entries))

\* withHeaders setting the first entry only.
withHeadersFirstOnly(m, req, headers) ==
    LET r == forEachSet(m, req, IF Len(headers) = 0 THEN headers ELSE <<headers[1]>>)
    IN  Returned(r.heap, r.nextId, req)

\* withHeaders returning a copy that carries the headers, not the object given.
withHeadersOnCopy(m, req, headers) ==
    LET copy == m.nextId + 1
        r == forEachSet([m EXCEPT !.heap = Alloc(m.heap, copy, m.heap[req])], copy, headers)
    IN  Returned(r.heap, r.nextId, copy)

withHeaders(m, req, headers) ==
    LET r == forEachSet(m, req, headers)
    IN  Returned(r.heap, r.nextId, req)

withQueryParams(m, req, params) ==
    query(m, req, params)

(*************************** convenience builders **************************)

buildGetRequest(m, path, token, serviceName) ==
    LET c == createRequest(m, serviceName)
    IN  IF c.threw THEN c
        ELSE LET req == verb(c, c.ret, "GET", path)
             IN  IF Truthy(token) THEN withAuth(req, req.ret, token) ELSE req

buildPostRequest(m, path, body, token, serviceName) ==
    LET c == createRequest(m, serviceName)
    IN  IF c.threw THEN c
        ELSE LET p   == verb(c, c.ret, "POST", path)
                 req == send(p, p.ret, body)
             IN  IF Truthy(token) THEN withAuth(req, req.ret, token) ELSE req

buildPutRequest(m, path, body, token, serviceName) ==
    LET c == createRequest(m, serviceName)
    IN  IF c.threw THEN c
        ELSE LET p   == verb(c, c.ret, "PUT", path)
                 req == send(p, p.ret, body)
             IN  IF Truthy(token) THEN withAuth(req, req.ret, token) ELSE req

buildPatchRequest(m, path, body, token, serviceName) ==
    LET c == createRequest(m, serviceName)
    IN  IF c.threw THEN c
        ELSE LET p   == verb(c, c.ret, "PATCH", path)
                 req == send(p, p.ret, body)
             IN  IF Truthy(token) THEN withAuth(req, req.ret, token) ELSE req

\* buildDeleteRequest testing the token against undefined only.
buildDeleteRequestDefinedToken(m, path, token, serviceName) ==
    LET c == createRequest(m, serviceName)
    IN  IF c.threw THEN c
        ELSE LET req == verb(c, c.ret, "DELETE", path)
             IN  IF token # Undefined THEN withAuth(req, req.ret, token) ELSE req

buildDeleteRequest(m, path, token, serviceName) ==
    LET c == createRequest(m, serviceName)
    IN  IF c.threw THEN c
        ELSE LET req == verb(c, c.ret, "DELETE", path)
             IN  IF Truthy(token) THEN withAuth(req, req.ret, token) ELSE req

(********************************* actions *********************************)

Machine == [heap |-> heap, nextId |-> nextId]

\* The objects some test case still holds.
Collect(h, hd) == [i \in ({hd[t] : t \in Tests} \ {0}) \cap DOMAIN h |-> h[i]]

\* Test case t made the call `call` and got the result r. A decorator call records in
\* `before` the object it was given, as it was when the call was made.
Finish(t, call, r, isFactory) ==
    /\ held' = IF r.threw THEN held ELSE [held EXCEPT ![t] = r.ret]
    /\ built' = IF r.threw \/ ~isFactory THEN built ELSE [built EXCEPT ![t] = r.ret]
    /\ heap' = Collect(r.heap, held')
    /\ nextId' = r.nextId
    /\ last' = call @@ [test |-> t, threw |-> r.threw, error |-> r.error, result |-> r.ret]
    /\ UNCHANGED <<config, TEMPLATE_CONFIG>>

\* Test case t holds a Test object to decorate.
HoldsTest(t) == held[t] # 0 /\ heap[held[t]].kind = "test"

CallCreateRequest(t, serviceName) ==
    LET r == createRequest(Machine, serviceName)
    IN  /\ r.nextId <= MaxAlloc
        /\ Finish(t, [op |-> "createRequest", serviceName |-> serviceName], r, TRUE)

CallBuildGetRequest(t, path, token, serviceName) ==
    LET r == buildGetRequest(Machine, path, token, serviceName)
    IN  /\ r.nextId <= MaxAlloc
        /\ Finish(t, [op |-> "buildGetRequest", path |-> path, body |-> Undefined,
                      token |-> token, serviceName |-> serviceName], r, TRUE)

CallBuildPostRequest(t, path, body, token, serviceName) ==
    LET r == buildPostRequest(Machine, path, body, token, serviceName)
    IN  /\ r.nextId <= MaxAlloc
        /\ Finish(t, [op |-> "buildPostRequest", path |-> path, body |-> body,
                      token |-> token, serviceName |-> serviceName], r, TRUE)

CallBuildPutRequest(t, path, body, token, serviceName) ==
    LET r == buildPutRequest(Machine, path, body, token, serviceName)
    IN  /\ r.nextId <= MaxAlloc
        /\ Finish(t, [op |-> "buildPutRequest", path |-> path, body |-> body,
                      token |-> token, serviceName |-> serviceName], r, TRUE)

CallBuildPatchRequest(t, path, body, token, serviceName) ==
    LET r == buildPatchRequest(Machine, path, body, token, serviceName)
    IN  /\ r.nextId <= MaxAlloc
        /\ Finish(t, [op |-> "buildPatchRequest", path |-> path, body |-> body,
                      token |-> token, serviceName |-> serviceName], r, TRUE)

CallBuildDeleteRequest(t, path, token, serviceName) ==
    LET r == buildDeleteRequest(Machine, path, token, serviceName)
    IN  /\ r.nextId <= MaxAlloc
        /\ Finish(t, [op |-> "buildDeleteRequest", path |-> path, body |-> Undefined,
                      token |-> token, serviceName |-> serviceName], r, TRUE)

CallWithAuth(t, token) ==
    /\ HoldsTest(t)
    /\ Finish(t, [op |-> "withAuth", req |-> held[t], before |-> heap[held[t]],
                  token |-> token],
              withAuth(Machine, held[t], token), FALSE)

CallWithApiKey(t, apiKey, headerName) ==
    /\ HoldsTest(t)
    /\ Finish(t, [op |-> "withApiKey", req |-> held[t], before |-> heap[held[t]],
                  apiKey |-> apiKey, headerName |-> headerName],
              withApiKey(Machine, held[t], apiKey, headerName), FALSE)

CallWithHeaders(t, headers) ==
    /\ HoldsTest(t)
    /\ Finish(t, [op |-> "withHeaders", req |-> held[t], before |-> heap[held[t]],
                  headers |-> headers],
              withHeaders(Machine, held[t], headers), FALSE)

CallWithQueryParams(t, params) ==
    /\ HoldsTest(t)
    /\ Finish(t, [op |-> "withQueryParams", req |-> held[t], before |-> heap[held[t]],
                  params |-> params],
              withQueryParams(Machine, held[t], params), FALSE)

InitState ==
    /\ heap = <<>>
    /\ nextId = 0
    /\ held = [t \in Tests |-> 0]
    /\ built = [t \in Tests |-> 0]
    /\ last = [op |-> "none"]

\* An environment without a services object, and one configuring two services.
NoServicesConfig == [env |-> "test"]
TwoServicesConfig ==
    [env |-> "test",
     services |-> << [key |-> "main", value |-> "http://main.test"],
                     [key |-> "payments", value |-> "http://payments.test"] >>]
MainPaymentsRegistry ==
    [services |-> << [key |-> "MAIN", value |-> "main"],
                     [key |-> "PAYMENTS", value |-> "payments"] >>]

(* createRequest alone, over every environment and registry. *)
InitFactory ==
    /\ config \in Configs
    /\ TEMPLATE_CONFIG \in {[services |-> r] : r \in Registries}
    /\ InitState

NextFactory ==
    \E t \in Tests, s \in ServiceArgs : CallCreateRequest(t, s)

SpecFactory == InitFactory /\ [][NextFactory]_vars

(* The convenience builders, over every token and service argument. *)
Paths == {"/users"}
Bodies == {Undefined, "{name:a}"}
BuildTokens == {Undefined, "", "tok"}

InitBuild ==
    /\ config \in {NoServicesConfig, TwoServicesConfig,
                   [env |-> "test", services |-> << [key |-> "payments", value |-> ""],
                                                    [key |-> "main", value |-> "http://main.test"] >>]}
    /\ TEMPLATE_CONFIG = MainPaymentsRegistry
    /\ InitState

NextBuild ==
    \E t \in Solo, path \in Paths, token \in BuildTokens, s \in ServiceArgs :
        \/ CallBuildGetRequest(t, path, token, s)
        \/ CallBuildDeleteRequest(t, path, token, s)
        \/ \E body \in Bodies :
              \/ CallBuildPostRequest(t, path, body, token, s)
              \/ CallBuildPutRequest(t, path, body, token, s)
              \/ CallBuildPatchRequest(t, path, body, token, s)

SpecBuild == InitBuild /\ [][NextBuild]_vars

(* The header decorators on built requests, over several tokens, keys and names. *)
AuthTokens == {"", "t1", "t2"}
HeaderValues == {"k1", "k2"}
ApiKeyHeaderArgs == {Undefined, "X-Custom"}
HeaderNames == {"X-Custom", "A"}

InitDecorate ==
    /\ config = TwoServicesConfig
    /\ TEMPLATE_CONFIG = MainPaymentsRegistry
    /\ InitState

NextDecorate ==
    \E t \in Solo :
        \/ CallBuildGetRequest(t, "/users", Undefined, Undefined)
        \/ \E token \in AuthTokens : CallWithAuth(t, token)
        \/ \E k \in HeaderValues, h \in ApiKeyHeaderArgs : CallWithApiKey(t, k, h)
        \/ \E hs \in OrderedMappings(HeaderNames, HeaderValues, MaxEntries) : CallWithHeaders(t, hs)

SpecDecorate == InitDecorate /\ [][NextDecorate]_vars

(* Every operation, interleaved between the test cases. *)
Init ==
    /\ config \in {NoServicesConfig, TwoServicesConfig}
    /\ TEMPLATE_CONFIG = MainPaymentsRegistry
    /\ InitState

Next ==
    \E t \in Tests :
        \/ CallCreateRequest(t, "payments")
        \/ CallBuildGetRequest(t, "/users", Undefined, Undefined)
        \/ CallBuildPostRequest(t, "/users", "{name:a}", "tok", Undefined)
        \/ CallBuildPutRequest(t, "/users", "{name:a}", Undefined, Undefined)
        \/ CallBuildPatchRequest(t, "/users", "{name:a}", Undefined, Undefined)
        \/ CallBuildDeleteRequest(t, "/users", Undefined, Undefined)
        \/ CallWithAuth(t, "tok")
        \/ CallWithApiKey(t, "k1", Undefined)
        \/ CallWithHeaders(t, << [key |-> "x-api-key", value |-> "k2"] >>)
        \/ CallWithQueryParams(t, << [key |-> "page", value |-> "1"] >>)

Spec == Init /\ [][Next]_vars

(********************************* properties ******************************)

\* The keys of the configured services mapping (none without a mapping).
ConfiguredKeys ==
    IF "services" \in DOMAIN config
    THEN {config.services[i].key : i \in 1..Len(config.services)}
    ELSE {}

\* The base URL the environment configures for the key s.
ConfiguredUrl(s) ==
    (CHOOSE e \in {config.services[i] : i \in 1..Len(config.services)} : e.key = s).value

\* The first entry of the Service Registry in declaration order.
DefaultService == TEMPLATE_CONFIG.services[1].value

Decorators == {"withAuth", "withApiKey", "withHeaders", "withQueryParams"}
Builders == {"buildGetRequest", "buildPostRequest", "buildPutRequest",
             "buildPatchRequest", "buildDeleteRequest"}
Factories == Builders \cup {"createRequest"}

\* C1 (as stated): createRequest(s), for every key s of the services mapping with base
\* URL u, does not raise and returns a builder whose target is exactly u.
C1_AsStated ==
    (last.op = "createRequest" /\ last.serviceName \in ConfiguredKeys)
        => /\ ~last.threw
           /\ heap[last.result].app = ConfiguredUrl(last.serviceName)

\* C1 (amended): createRequest(s), for every key s of the services mapping whose base
\* URL u is a non-empty string, does not raise and returns a builder whose target is
\* exactly u.
C1_NonEmptyUrlTargeted ==
    (/\ last.op = "createRequest"
     /\ last.serviceName \in ConfiguredKeys
     /\ ConfiguredUrl(last.serviceName) # "")
        => /\ ~last.threw
           /\ last.result \in DOMAIN heap
           /\ heap[last.result].app = ConfiguredUrl(last.serviceName)

\* createRequest("payments") returned, where "payments" is not the default service and
\* the default service is configured with another URL.
C1_Witness ==
    /\ last.op = "createRequest"
    /\ last.serviceName = "payments"
    /\ ~last.threw
    /\ DefaultService = "main"
    /\ "main" \in ConfiguredKeys
    /\ ConfiguredUrl("main") \notin {"", ConfiguredUrl("payments")}

\* C2: createRequest() with no argument has the outcome of createRequest(defaultService),
\* defaultService being the first registry entry: the same base URL, or the same error.
C2_DefaultIsFirstEntry ==
    (last.op = "createRequest" /\ last.serviceName = Undefined)
        => LET explicit == createRequest(Machine, DefaultService)
           IN  /\ last.threw = explicit.threw
               /\ last.error = explicit.error
               /\ ~last.threw => heap[last.result].app = explicit.heap[explicit.ret].app

\* createRequest() returned under a registry of two services that are configured with
\* different URLs.
C2_Witness ==
    /\ last.op = "createRequest"
    /\ last.serviceName = Undefined
    /\ ~last.threw
    /\ Len(TEMPLATE_CONFIG.services) = 2
    /\ ConfiguredKeys = {"main", "payments"}
    /\ ConfiguredUrl("main") # ConfiguredUrl("payments")
    /\ ConfiguredUrl("main") # "" /\ ConfiguredUrl("payments") # ""

\* The part of a "service not configured" message that lists the available services.
Listed(msg) == SubSeq(msg, 5, Len(msg) - 2)

\* C3: with a services mapping, createRequest(s) for s not in the mapping raises and
\* returns no builder, and the message lists every identifier of the mapping and only
\* identifiers of the mapping.
C3_AbsentServiceListsAvailable ==
    (/\ last.op = "createRequest"
     /\ "services" \in DOMAIN config
     /\ last.serviceName # Undefined
     /\ last.serviceName \notin ConfiguredKeys)
        => /\ last.threw
           /\ last.result = 0
           /\ last.error[1] = "Service \""
           /\ last.error[2] = last.serviceName
           /\ last.error[4] = "Available services: "
           /\ \A k \in ConfiguredKeys :
                  \E i \in 1..Len(Listed(last.error)) : Listed(last.error)[i] = k
           /\ \A i \in 1..Len(Listed(last.error)) :
                  Listed(last.error)[i] \in ConfiguredKeys \cup {", "}

\* createRequest("legacy") raised against a mapping of two services.
C3_Witness ==
    /\ last.op = "createRequest"
    /\ last.serviceName = "legacy"
    /\ last.threw
    /\ Cardinality(ConfiguredKeys) = 2

\* C4: without a services mapping createRequest raises the "services not configured"
\* error for every argument, never the "service not configured" one.
C4_MissingMappingFirst ==
    (last.op = "createRequest" /\ "services" \notin DOMAIN config)
        => /\ last.threw
           /\ last.result = 0
           /\ last.error = << "Services not configured in environment file\n",
                              "Ensure your environment config includes the services object" >>
           /\ \A i \in 1..Len(last.error) : last.error[i] # "Available services: "

\* createRequest of an identifier outside the registry raised without a services mapping.
C4_Witness ==
    /\ last.op = "createRequest"
    /\ "services" \notin DOMAIN config
    /\ last.serviceName = "legacy"
    /\ last.threw

\* The text of the bearer credential for each token passed.
BearerOf(token) ==
    CASE token = "" -> "Bearer "
      [] token = "t1" -> "Bearer t1"
      [] token = "t2" -> "Bearer t2"
      [] token = "tok" -> "Bearer tok"

\* What createRequest resolves the argument s to.
Resolved(s) == IF s \in {Undefined, ""} THEN DefaultService ELSE s

MethodOf(op) ==
    CASE op = "buildGetRequest" -> "GET"
      [] op = "buildPostRequest" -> "POST"
      [] op = "buildPutRequest" -> "PUT"
      [] op = "buildPatchRequest" -> "PATCH"
      [] op = "buildDeleteRequest" -> "DELETE"

\* C5: each convenience builder returns, for a configured service, a builder with the
\* matching method, the given path, the given body (POST/PUT/PATCH only) and header
\* Authorization = "Bearer <token>" exactly when the token is defined and non-empty;
\* without one the builder is the same otherwise and has no Authorization header.
C5_BuildersCompose ==
    (/\ last.op \in Builders
     /\ Resolved(last.serviceName) \in ConfiguredKeys
     /\ ConfiguredUrl(Resolved(last.serviceName)) # "")
        => /\ ~last.threw
           /\ LET b == heap[last.result]
                  withToken == last.token \notin {Undefined, ""}
              IN  /\ b.kind = "test"
                  /\ b.app = ConfiguredUrl(Resolved(last.serviceName))
                  /\ b.method = MethodOf(last.op)
                  /\ b.path = last.path
                  /\ b.body = IF last.op \in {"buildPostRequest", "buildPutRequest",
                                              "buildPatchRequest"}
                              THEN last.body ELSE Undefined
                  /\ b.query = <<>>
                  /\ DOMAIN b.header = IF withToken THEN {"Authorization"} ELSE {}
                  /\ withToken =>
                        b.header["Authorization"] = BearerOf(last.token)

\* buildPostRequest("/users", {name:"a"}, "tok", "payments") returned.
C5_Witness ==
    /\ last.op = "buildPostRequest"
    /\ last.token = "tok"
    /\ last.body = "{name:a}"
    /\ last.serviceName = "payments"
    /\ ~last.threw
    /\ heap[last.result].header["Authorization"] = "Bearer tok"

\* Every header of `after` but name is in `before` with the same value, and conversely.
SameExcept(before, after, names) ==
    /\ DOMAIN after \ names = DOMAIN before \ names
    /\ \A n \in DOMAIN before \ names : after[n] = before[n]

\* C6: withAuth(req, t) sets Authorization to exactly "Bearer " followed by t, for every
\* token; after a sequence of withAuth calls the header holds the last token's value.
C6_AuthIsLastBearer ==
    last.op = "withAuth"
        => /\ "Authorization" \in DOMAIN heap[last.req].header
           /\ heap[last.req].header["Authorization"] = BearerOf(last.token)
           /\ SameExcept(last.before.header, heap[last.req].header, {"Authorization"})

\* withAuth(req, "t2") was applied to a request carrying "Bearer t1".
C6_Witness ==
    /\ last.op = "withAuth"
    /\ last.token = "t2"
    /\ "Authorization" \in DOMAIN last.before.header
    /\ last.before.header["Authorization"] = "Bearer t1"

\* C7: withApiKey(req, k) sets x-api-key to k; withApiKey(req, k, h) with h other than
\* x-api-key sets h to k and leaves x-api-key and every other header as it was.
C7_ApiKeyFrame ==
    last.op = "withApiKey"
        => LET after == heap[last.req].header
           IN  /\ last.headerName = Undefined
                    => /\ "x-api-key" \in DOMAIN after
                       /\ after["x-api-key"] = last.apiKey
                       /\ SameExcept(last.before.header, after, {"x-api-key"})
               /\ last.headerName \notin {Undefined, "x-api-key"}
                    => /\ last.headerName \in DOMAIN after
                       /\ after[last.headerName] = last.apiKey
                       /\ SameExcept(last.before.header, after, {last.headerName})

\* withApiKey(req, "k2", "X-Custom") was applied to a request carrying x-api-key "k1"
\* and an Authorization header, and the request still carries x-api-key "k1".
C7_Witness ==
    /\ last.op = "withApiKey"
    /\ last.headerName = "X-Custom"
    /\ last.apiKey = "k2"
    /\ "Authorization" \in DOMAIN last.before.header
    /\ "x-api-key" \in DOMAIN last.before.header
    /\ last.before.header["x-api-key"] = "k1"
    /\ heap[last.req].header["x-api-key"] = "k1"

\* C8: every decorator returns the very instance it was given, so after any chain the
\* handle of each step and the original handle denote one builder.
C8_DecoratorsReturnSameInstance ==
    /\ last.op \in Decorators => last.result = last.req
    /\ \A t \in Tests : held[t] = built[t]

\* A chain of the decorators ended on the handle the builder returned, with the
\* headers and the query parameter of every step on that one builder.
C8_Witness ==
    /\ last.op = "withQueryParams"
    /\ held[last.test] = built[last.test]
    /\ "Authorization" \in DOMAIN heap[last.result].header
    /\ "x-api-key" \in DOMAIN heap[last.result].header
    /\ heap[last.result].header["x-api-key"] = "k2"
    /\ heap[last.result].method = "GET"
    /\ "page" \in DOMAIN heap[last.result].query

\* C9: every factory call returns an instance no earlier call returned, a call changes
\* no builder but the one it decorates, and the environment configuration and the
\* registry are never modified.
C9_Step ==
    /\ config' = config
    /\ TEMPLATE_CONFIG' = TEMPLATE_CONFIG
    /\ \A t \in Tests : held[t] <= nextId
    /\ \A t, u \in Tests : (t # u /\ held[t] # 0) => held[t] # held[u]
    /\ (last'.op \in Factories /\ ~last'.threw)
         => (last'.result > nextId /\ last'.result \notin DOMAIN heap)
    /\ \A i \in DOMAIN heap \cap DOMAIN heap' :
         \/ heap'[i] = heap[i]
         \/ last'.op \in Decorators /\ last'.req = i

C9_FreshAndIsolated == [][C9_Step]_vars

\* Both test cases hold builders of the same service, decorated differently, and the
\* last call decorated one of them.
C9_Witness ==
    /\ last.op = "withAuth"
    /\ \A t \in Tests : held[t] # 0 /\ heap[held[t]].kind = "test"
    /\ held["tc1"] # held["tc2"]
    /\ heap[held["tc1"]].app = heap[held["tc2"]].app
    /\ heap[held["tc1"]].header # heap[held["tc2"]].header

\* The orders in which the entries of a mapping can be enumerated.
EnumerationOrders(entries) ==
    DistinctSeqs({entries[i] : i \in 1..Len(entries)}, Len(entries), Len(entries))

\* C10: withHeaders(req, headers) leaves every name of the mapping on req with its
\* mapped value whatever the enumeration order, and the other headers unchanged.
C10_HeadersOrderFree ==
    last.op = "withHeaders"
        => LET after == heap[last.req].header
               names == {last.headers[i].key : i \in 1..Len(last.headers)}
               start == [heap |-> Alloc(heap, last.req, last.before), nextId |-> nextId]
           IN  /\ \A i \in 1..Len(last.headers) :
                     /\ last.headers[i].key \in DOMAIN after
                     /\ after[last.headers[i].key] = last.headers[i].value
               /\ SameExcept(last.before.header, after, names)
               /\ \A p \in EnumerationOrders(last.headers) :
                     withHeaders(start, last.req, p).heap[last.req].header = after

\* withHeaders with two entries was applied to a request that carried another header
\* and a different value for one of the two names.
C10_Witness ==
    /\ last.op = "withHeaders"
    /\ Len(last.headers) = 2
    /\ last.headers[2].key = "A"
    /\ "Authorization" \in DOMAIN last.before.header
    /\ "A" \in DOMAIN last.before.header
    /\ last.before.header["A"] # last.headers[2].value

====
